---- MODULE Spec2Model ----
(***************************************************************************)
(* tinyTrainer: the node model (src/models/models.py) and the simulation   *)
(* tick and lifecycle transitions (src/simulations/simulation.py).         *)
(*                                                                         *)
(* A topology is a function from node names to Node records.  Every        *)
(* operation is a pure operator on a topology; the random draws of         *)
(* tick_sim (the sample, the Bernoulli trial, the victim and the fault     *)
(* code) are parameters of the operator and are chosen nondeterministically*)
(* by the action that applies it.                                          *)
(***************************************************************************)
EXTENDS Integers, FiniteSets, Sequences, TLC

VARIABLES
    nodes,   \* st.session_state.nodes: name -> Node
    edges,   \* st.session_state.edges: sequence of <<src, dst, label>>
    pre,     \* history: the topology before the last operation
    last,    \* history: the last operation, its arguments and its random draws
    steps    \* history: number of operations applied so far

vars == <<nodes, edges, pre, last, steps>>

----------------------------------------------------------------------------
(* Bounds *)

\* Longest sequence of operations explored from an initial topology.
MaxSteps == 3

\* Longest sequence of script runs of the UI explored from the first page load.
MaxRuns == 2

----------------------------------------------------------------------------
(* src/models/models.py *)

ROLES == <<"UNASSIGNED", "DC motor", "vision", "6 DOF", "ELEVATION">>

STATES == <<"UNASSIGNED", "CONFIGURED", "ACTIVE", "FAULT">>

Range(s) == {s[i] : i \in DOMAIN s}

\* Node whose node_id defaults to 1.
Node_id_one(name, kind) ==
    [name |-> name, kind |-> kind, role |-> "UNASSIGNED", state |-> "UNASSIGNED",
     bus |-> "CAN", node_id |-> 1, heartbeat |-> TRUE, bus_activity |-> FALSE,
     fault_code |-> "", notes |-> "", x |-> 0, y |-> 0]

\* The dataclass with its defaults: Node(name, kind).
Node(name, kind) ==
    [name |-> name, kind |-> kind, role |-> "UNASSIGNED", state |-> "UNASSIGNED",
     bus |-> "CAN", node_id |-> 0, heartbeat |-> TRUE, bus_activity |-> FALSE,
     fault_code |-> "", notes |-> "", x |-> 0, y |-> 0]

\* Node(name, kind, role=, state=, node_id=, x=, y=) as init_nodes calls it.
NodeAt(name, kind, role, state, node_id, x, y) ==
    [Node(name, kind) EXCEPT !.role = role, !.state = state,
                             !.node_id = node_id, !.x = x, !.y = y]

init_nodes ==
    ("tinyCore"   :> NodeAt("tinyCore", "tinyCore", "ARBITRATOR", "ACTIVE", 1, 200, 250)) @@
    ("tinyMod_UI" :> NodeAt("tinyMod_UI", "tinyMod", "UI/CONFIG", "ACTIVE", 2, 400, 100)) @@
    ("tinyMod_A"  :> NodeAt("tinyMod_A", "tinyMod", "DC motor", "CONFIGURED", 3, 400, 200)) @@
    ("tinyMod_B"  :> NodeAt("tinyMod_B", "tinyMod", "vision", "CONFIGURED", 4, 400, 300)) @@
    ("tinyMod_C"  :> NodeAt("tinyMod_C", "tinyMod", "6 DOF", "CONFIGURED", 5, 400, 400)) @@
    ("tinyMod_D"  :> NodeAt("tinyMod_D", "tinyMod", "ELEVATION", "CONFIGURED", 6, 400, 500)) @@
    ("tinyHub"    :> NodeAt("tinyHub", "tinyHub", "IO EXPAND", "ACTIVE", 20, 600, 100)) @@
    ("tinySwitch" :> NodeAt("tinySwitch", "tinySwitch", "HMI INPUTS", "ACTIVE", 30, 800, 200))

\* init_edges with one edge to a module that init_nodes does not create.
init_edges_dangling ==
    << <<"tinyCore", "tinyMod_UI", "bus">>,
       <<"tinyCore", "tinyMod_A", "bus">>,
       <<"tinyCore", "tinyMod_B", "bus">>,
       <<"tinyCore", "tinyMod_C", "bus">>,
       <<"tinyCore", "tinyMod_D", "bus">>,
       <<"tinyMod_UI", "tinyHub", "bus">>,
       <<"tinyHub", "tinySwitch", "IO">>,
       <<"tinyCore", "tinyMod_E", "inputs">> >>

init_edges ==
    << <<"tinyCore", "tinyMod_UI", "bus">>,
       <<"tinyCore", "tinyMod_A", "bus">>,
       <<"tinyCore", "tinyMod_B", "bus">>,
       <<"tinyCore", "tinyMod_C", "bus">>,
       <<"tinyCore", "tinyMod_D", "bus">>,
       <<"tinyMod_UI", "tinyHub", "bus">>,
       <<"tinyHub", "tinySwitch", "IO">>,
       <<"tinyCore", "tinySwitch", "inputs">> >>

----------------------------------------------------------------------------
(* src/simulations/simulation.py: tick_sim *)

Max(a, b) == IF a >= b THEN a ELSE b

Min(a, b) == IF a <= b THEN a ELSE b

EligibleKinds == {"tinyMod", "tinyHub", "tinyCore"}

FaultCodes == {"E01_WATCHDOG", "E12_BUS_TIMEOUT", "E33_OVERCURRENT_SIM"}

\* mods = [n for n in nodes.values() if n.kind in (...)], as a set of names.
eligible(nds) == {n \in DOMAIN nds : nds[n].kind \in EligibleKinds}

\* victims comparing against a kind that no node has.
victims_wrong_kind(nds) == {n \in DOMAIN nds : nds[n].kind = "tinyModule"}

\* victims drawn from the list the activity sample is drawn from.
victims_eligible(nds) == {n \in DOMAIN nds : nds[n].kind \in EligibleKinds}

\* [n for n in nodes.values() if n.kind == "tinyMod"], as a set of names.
victims(nds) == {n \in DOMAIN nds : nds[n].kind = "tinyMod"}

\* sample_size without the lower clamp.
sample_size_unclamped(nds, activity_level) ==
    Min(Cardinality(eligible(nds)), activity_level)

\* k = max(1, min(len(mods), activity_level))
sample_size(nds, activity_level) ==
    Max(1, Min(Cardinality(eligible(nds)), activity_level))

\* The possible results of random.sample(mods, k): the k-subsets of mods.
samples(nds, k) == {S \in SUBSET eligible(nds) : Cardinality(S) = k}

\* clear_activity with the reset loop left out.
clear_activity_skipped(nds) == nds

\* for n in nodes.values(): n.bus_activity = False
clear_activity(nds) == [n \in DOMAIN nds |-> [nds[n] EXCEPT !.bus_activity = FALSE]]

\* mark_activity that takes bus activity for the ACTIVE state.
mark_activity_activates(nds, sampled) ==
    [n \in DOMAIN nds |->
        IF n \in sampled
        THEN [nds[n] EXCEPT !.bus_activity = TRUE, !.state = "ACTIVE"]
        ELSE nds[n]]

\* for n in random.sample(mods, k): n.bus_activity = True
mark_activity(nds, sampled) ==
    [n \in DOMAIN nds |->
        IF n \in sampled THEN [nds[n] EXCEPT !.bus_activity = TRUE] ELSE nds[n]]

\* inject_fault that also drops the victim's heartbeat.
inject_fault_stops_heartbeat(nds, victim, code) ==
    [nds EXCEPT ![victim].state = "FAULT", ![victim].fault_code = code,
                ![victim].heartbeat = FALSE]

\* inject_fault hitting every pluggable module instead of the one victim.
inject_fault_all(nds, victim, code) ==
    [n \in DOMAIN nds |->
        IF nds[n].kind = "tinyMod"
        THEN [nds[n] EXCEPT !.state = "FAULT", !.fault_code = code]
        ELSE nds[n]]

\* inject_fault that leaves a victim already in FAULT as it is.
inject_fault_skips_faulted(nds, victim, code) ==
    IF nds[victim].state = "FAULT"
    THEN nds
    ELSE [nds EXCEPT ![victim].state = "FAULT", ![victim].fault_code = code]

\* victim.state = "FAULT"; victim.fault_code = random.choice([...])
inject_fault(nds, victim, code) ==
    [nds EXCEPT ![victim].state = "FAULT", ![victim].fault_code = code]

\* tick_sim with its random draws made explicit: sampled is the result of
\* random.sample, fire the outcome of random.random() < 0.05, victim and code
\* the results of the two random.choice calls (read only when fire holds).
tick_sim(nds, sampled, fire, victim, code) ==
    LET active == mark_activity(clear_activity(nds), sampled)
    IN  IF fire THEN inject_fault(active, victim, code) ELSE active

----------------------------------------------------------------------------
(* src/simulations/simulation.py: set_role, activate_node, clear_fault *)

\* set_role with its two string arguments swapped in the assignment.
set_role_swapped(nds, node_name, role) ==
    LET n == nds[node_name]
        state == IF role = "UNASSIGNED" THEN "UNASSIGNED"
                 ELSE IF n.state \in {"UNASSIGNED"} THEN "CONFIGURED" ELSE n.state
    IN  [nds EXCEPT ![node_name].role = node_name, ![node_name].state = state]

\* set_role with the configured state misspelt.
set_role_misspelt(nds, node_name, role) ==
    LET n == nds[node_name]
        state == IF role = "UNASSIGNED" THEN "UNASSIGNED"
                 ELSE IF n.state \in {"UNASSIGNED"} THEN "CONFIGURD" ELSE n.state
    IN  [nds EXCEPT ![node_name].role = role, ![node_name].state = state]

\* set_role that moves the state one stage on at every assignment.
set_role_advances(nds, node_name, role) ==
    LET n == nds[node_name]
        state == IF role = "UNASSIGNED" THEN "UNASSIGNED"
                 ELSE IF n.state = "UNASSIGNED" THEN "CONFIGURED"
                 ELSE IF n.state = "CONFIGURED" THEN "ACTIVE" ELSE n.state
    IN  [nds EXCEPT ![node_name].role = role, ![node_name].state = state]

\* set_role that also empties the fault code when it unassigns.
set_role_clears_code(nds, node_name, role) ==
    LET n == nds[node_name]
    IN  IF role = "UNASSIGNED"
        THEN [nds EXCEPT ![node_name].role = role, ![node_name].state = "UNASSIGNED",
                         ![node_name].fault_code = ""]
        ELSE [nds EXCEPT ![node_name].role = role,
                         ![node_name].state =
                             IF n.state \in {"UNASSIGNED"} THEN "CONFIGURED" ELSE n.state]

\* set_role that writes the role and leaves the state alone.
set_role_role_only(nds, node_name, role) ==
    [nds EXCEPT ![node_name].role = role]

\* set_role assigning the role to the kind field as well.
set_role_writes_kind(nds, node_name, role) ==
    LET n == nds[node_name]
        state == IF role = "UNASSIGNED" THEN "UNASSIGNED"
                 ELSE IF n.state \in {"UNASSIGNED"} THEN "CONFIGURED" ELSE n.state
    IN  [nds EXCEPT ![node_name].role = role, ![node_name].kind = role,
                    ![node_name].state = state]

\* set_role whose hard reset spares a faulted node.
set_role_keeps_fault(nds, node_name, role) ==
    LET n == nds[node_name]
        state == IF role = "UNASSIGNED" /\ n.state # "FAULT" THEN "UNASSIGNED"
                 ELSE IF n.state \in {"UNASSIGNED"} THEN "CONFIGURED" ELSE n.state
    IN  [nds EXCEPT ![node_name].role = role, ![node_name].state = state]

\* set_role that configures on every assignment of a role.
set_role_reconfigures(nds, node_name, role) ==
    LET state == IF role = "UNASSIGNED" THEN "UNASSIGNED" ELSE "CONFIGURED"
    IN  [nds EXCEPT ![node_name].role = role, ![node_name].state = state]

set_role(nds, node_name, role) ==
    LET n == nds[node_name]
        state == IF role = "UNASSIGNED" THEN "UNASSIGNED"
                 ELSE IF n.state \in {"UNASSIGNED"} THEN "CONFIGURED" ELSE n.state
    IN  [nds EXCEPT ![node_name].role = role, ![node_name].state = state]

\* activate_node without the FAULT test.
activate_node_unguarded(nds, node_name) ==
    LET n == nds[node_name]
    IN  IF n.role # "UNASSIGNED"
        THEN [nds EXCEPT ![node_name].state = "ACTIVE"]
        ELSE nds

\* activate_node without the role test.
activate_node_any_role(nds, node_name) ==
    LET n == nds[node_name]
    IN  IF n.state # "FAULT"
        THEN [nds EXCEPT ![node_name].state = "ACTIVE"]
        ELSE nds

activate_node(nds, node_name) ==
    LET n == nds[node_name]
    IN  IF n.state # "FAULT" /\ n.role # "UNASSIGNED"
        THEN [nds EXCEPT ![node_name].state = "ACTIVE"]
        ELSE nds

\* clear_fault without the fallback to UNASSIGNED.
clear_fault_to_configured(nds, node_name) ==
    LET n == nds[node_name]
    IN  IF n.state # "FAULT"
        THEN nds
        ELSE [nds EXCEPT ![node_name].fault_code = "", ![node_name].state = "CONFIGURED"]

\* clear_fault that clears the code before it tests the state.
clear_fault_code_first(nds, node_name) ==
    LET n == nds[node_name]
    IN  IF n.state # "FAULT"
        THEN [nds EXCEPT ![node_name].fault_code = ""]
        ELSE [nds EXCEPT ![node_name].fault_code = "",
                         ![node_name].state =
                             IF n.role # "UNASSIGNED" THEN "CONFIGURED" ELSE "UNASSIGNED"]

clear_fault(nds, node_name) ==
    LET n == nds[node_name]
    IN  IF n.state # "FAULT"
        THEN nds
        ELSE [nds EXCEPT ![node_name].fault_code = "",
                         ![node_name].state =
                             IF n.role # "UNASSIGNED" THEN "CONFIGURED" ELSE "UNASSIGNED"]

----------------------------------------------------------------------------
(* src/archive/app.py: tick_sim, set_role, activate_node *)

\* recover_faults falling back by role, as clear_fault does.
recover_faults_by_role(nds) ==
    [n \in DOMAIN nds |->
        IF nds[n].state = "FAULT"
        THEN [nds[n] EXCEPT !.state = IF nds[n].role # "UNASSIGNED"
                                       THEN "CONFIGURED" ELSE "UNASSIGNED",
                            !.fault_code = ""]
        ELSE nds[n]]

\* for n in nodes.values(): if n.state == "FAULT": n.state = "ACTIVE"; n.fault_code = ""
recover_faults(nds) ==
    [n \in DOMAIN nds |->
        IF nds[n].state = "FAULT"
        THEN [nds[n] EXCEPT !.state = "ACTIVE", !.fault_code = ""]
        ELSE nds[n]]

\* The archive tick_sim with the recovery branch ahead of the injection.
archive_tick_sim_recovers_first(nds, sampled, fire, victim, code, recover) ==
    LET active    == mark_activity(clear_activity(nds), sampled)
        recovered == IF recover THEN recover_faults(active) ELSE active
    IN  IF fire THEN inject_fault(recovered, victim, code) ELSE recovered

\* The archive tick_sim: the same reset, sample and injection, then the
\* recovery branch; recover is the outcome of random.random() < 0.08.
archive_tick_sim(nds, sampled, fire, victim, code, recover) ==
    LET active  == mark_activity(clear_activity(nds), sampled)
        faulted == IF fire THEN inject_fault(active, victim, code) ELSE active
    IN  IF recover THEN recover_faults(faulted) ELSE faulted

archive_set_role(nds, node_name, role) ==
    LET n == nds[node_name]
    IN  IF role = "UNASSIGNED"
        THEN [nds EXCEPT ![node_name].role = role, ![node_name].state = "UNASSIGNED"]
        ELSE [nds EXCEPT ![node_name].role = role,
                         ![node_name].state =
                             IF n.state \in {"UNASSIGNED"} THEN "CONFIGURED" ELSE n.state]

archive_activate_node(nds, node_name) ==
    LET n == nds[node_name]
    IN  IF n.state # "FAULT" /\ n.role # "UNASSIGNED"
        THEN [nds EXCEPT ![node_name].state = "ACTIVE"]
        ELSE nds

----------------------------------------------------------------------------
(* src/simulation.py: the flat copy of tick_sim, set_role, activate_node   *)
(* and clear_fault that src/streamlit_app.py imports                       *)

\* mods = [n for n in nodes.values() if n.kind in ("tinyMod", "tinyHub", "tinyCore")]
flat_mods(nds) ==
    {n \in DOMAIN nds : nds[n].kind = "tinyMod" \/ nds[n].kind = "tinyHub"
                                                \/ nds[n].kind = "tinyCore"}

\* k = max(1, min(len(mods), activity_level))
flat_sample_size(nds, activity_level) ==
    LET len == Cardinality(flat_mods(nds))
        m   == IF activity_level < len THEN activity_level ELSE len
    IN  IF m > 1 THEN m ELSE 1

\* [n for n in nodes.values() if n.kind == "tinyMod"]
flat_victims(nds) == {n \in DOMAIN nds : nds[n].kind = "tinyMod"}

\* tick_sim of the flat copy, statement by statement, with the same explicit
\* draws as tick_sim above.
flat_tick_sim(nds, sampled, fire, victim, code) ==
    LET cleared == [n \in DOMAIN nds |-> [nds[n] EXCEPT !.bus_activity = FALSE]]
        marked  == [n \in DOMAIN nds |->
                       IF n \in sampled
                       THEN [cleared[n] EXCEPT !.bus_activity = TRUE]
                       ELSE cleared[n]]
    IN  IF fire
        THEN [n \in DOMAIN nds |->
                 IF n = victim
                 THEN [marked[n] EXCEPT !.state = "FAULT", !.fault_code = code]
                 ELSE marked[n]]
        ELSE marked

\* flat_set_role that configures a node at every assignment of a role.
flat_set_role_configures(nds, node_name, role) ==
    [nds EXCEPT ![node_name] =
        [@ EXCEPT !.role = role,
                  !.state = IF role = "UNASSIGNED" THEN "UNASSIGNED" ELSE "CONFIGURED"]]

flat_set_role(nds, node_name, role) ==
    LET n  == nds[node_name]
        n1 == [n EXCEPT !.role = role]
        n2 == IF role = "UNASSIGNED"
              THEN [n1 EXCEPT !.state = "UNASSIGNED"]
              ELSE [n1 EXCEPT !.state = IF n1.state = "UNASSIGNED"
                                        THEN "CONFIGURED" ELSE n1.state]
    IN  [nds EXCEPT ![node_name] = n2]

flat_activate_node(nds, node_name) ==
    LET n == nds[node_name]
    IN  [nds EXCEPT ![node_name] =
            IF n.state # "FAULT" /\ n.role # "UNASSIGNED"
            THEN [n EXCEPT !.state = "ACTIVE"]
            ELSE n]

flat_clear_fault(nds, node_name) ==
    LET n  == nds[node_name]
        n1 == [n EXCEPT !.fault_code = ""]
    IN  IF n.state # "FAULT"
        THEN nds
        ELSE [nds EXCEPT ![node_name] =
                 [n1 EXCEPT !.state = IF n1.role # "UNASSIGNED"
                                      THEN "CONFIGURED" ELSE "UNASSIGNED"]]

----------------------------------------------------------------------------
(* Inputs *)

\* activity_level arguments tried on the default topology, which has seven
\* eligible nodes: above the eligible count, so the sample is all of them.
Levels == {7, 999}

\* activity_level arguments tried with the archive tick.
ArchiveLevels == {7}

\* node_name arguments of the lifecycle operations: two pluggable modules
\* and the core controller.
TargetNames == {"tinyMod_A", "tinyMod_B", "tinyCore"}

\* The record of an operation; fields an operation does not use keep these values.
NoOp == [op |-> "init", node |-> "", role |-> "", level |-> 0, k |-> 0,
         sampled |-> {}, fire |-> FALSE, victim |-> "", code |-> "", err |-> "",
         recover |-> FALSE]

----------------------------------------------------------------------------
(* Actions: one per operation of the driving loop *)

Record(op, nds) ==
    /\ nodes' = nds
    /\ pre' = nodes
    /\ last' = op
    /\ steps' = steps + 1
    /\ UNCHANGED edges

\* tick_sim(nodes, activity_level).  random.sample raises ValueError when the
\* population is smaller than k (no eligible node), after the reset loop has
\* run; random.choice raises IndexError on an empty victim list, after the
\* activity has been marked.
TickWith(levels) ==
    /\ steps < MaxSteps
    /\ \E activity_level \in levels :
        LET k  == sample_size(nodes, activity_level)
            op == [NoOp EXCEPT !.op = "tick_sim", !.level = activity_level, !.k = k]
        IN  IF k > Cardinality(eligible(nodes))
            THEN Record([op EXCEPT !.err = "ValueError"], clear_activity(nodes))
            ELSE \E sampled \in samples(nodes, k), fire \in BOOLEAN :
                    IF ~fire
                    THEN Record([op EXCEPT !.sampled = sampled],
                                tick_sim(nodes, sampled, FALSE, "", ""))
                    ELSE IF victims(nodes) = {}
                    THEN Record([op EXCEPT !.sampled = sampled, !.fire = TRUE,
                                           !.err = "IndexError"],
                                tick_sim(nodes, sampled, FALSE, "", ""))
                    ELSE \E victim \in victims(nodes), code \in FaultCodes :
                            Record([op EXCEPT !.sampled = sampled, !.fire = TRUE,
                                              !.victim = victim, !.code = code],
                                   tick_sim(nodes, sampled, TRUE, victim, code))

Tick == TickWith(Levels)

SetRole ==
    /\ steps < MaxSteps
    /\ \E node_name \in TargetNames \cap DOMAIN nodes, role \in Range(ROLES) :
        Record([NoOp EXCEPT !.op = "set_role", !.node = node_name, !.role = role],
               set_role(nodes, node_name, role))

Activate ==
    /\ steps < MaxSteps
    /\ \E node_name \in TargetNames \cap DOMAIN nodes :
        Record([NoOp EXCEPT !.op = "activate_node", !.node = node_name],
               activate_node(nodes, node_name))

ClearFault ==
    /\ steps < MaxSteps
    /\ \E node_name \in TargetNames \cap DOMAIN nodes :
        Record([NoOp EXCEPT !.op = "clear_fault", !.node = node_name],
               clear_fault(nodes, node_name))

\* Reset handing back the Node objects of the session instead of new ones.
Reset_aliased ==
    /\ steps < MaxSteps
    /\ Record([NoOp EXCEPT !.op = "reset"], nodes)

\* The Reset button: st.session_state.nodes = init_nodes()
Reset ==
    /\ steps < MaxSteps
    /\ Record([NoOp EXCEPT !.op = "reset"], init_nodes)

Init ==
    /\ nodes = init_nodes
    /\ edges = init_edges
    /\ pre = init_nodes
    /\ last = NoOp
    /\ steps = 0

Next == Tick \/ SetRole \/ Activate \/ ClearFault \/ Reset

Spec == Init /\ [][Next]_vars

----------------------------------------------------------------------------
(* The archive app (src/archive/app.py): tick with recovery, set_role,     *)
(* activate_node and reset; it has no clear_fault.                         *)

\* The archive tick_sim(nodes, activity_level).  An exception of
\* random.sample or random.choice leaves the function before the recovery
\* branch is reached.
ArchiveTickWith(levels) ==
    /\ steps < MaxSteps
    /\ \E activity_level \in levels :
        LET k  == sample_size(nodes, activity_level)
            op == [NoOp EXCEPT !.op = "tick_sim", !.level = activity_level, !.k = k]
        IN  IF k > Cardinality(eligible(nodes))
            THEN Record([op EXCEPT !.err = "ValueError"], clear_activity(nodes))
            ELSE \E sampled \in samples(nodes, k), fire \in BOOLEAN :
                    IF fire /\ victims(nodes) = {}
                    THEN Record([op EXCEPT !.sampled = sampled, !.fire = TRUE,
                                           !.err = "IndexError"],
                                mark_activity(clear_activity(nodes), sampled))
                    ELSE \E recover \in BOOLEAN :
                          IF ~fire
                          THEN Record([op EXCEPT !.sampled = sampled, !.recover = recover],
                                      archive_tick_sim(nodes, sampled, FALSE, "", "", recover))
                          ELSE \E victim \in victims(nodes), code \in FaultCodes :
                                Record([op EXCEPT !.sampled = sampled, !.fire = TRUE,
                                                  !.victim = victim, !.code = code,
                                                  !.recover = recover],
                                       archive_tick_sim(nodes, sampled, TRUE, victim, code,
                                                        recover))

ArchiveTick == ArchiveTickWith(ArchiveLevels)

ArchiveSetRole ==
    /\ steps < MaxSteps
    /\ \E node_name \in TargetNames \cap DOMAIN nodes, role \in Range(ROLES) :
        Record([NoOp EXCEPT !.op = "set_role", !.node = node_name, !.role = role],
               archive_set_role(nodes, node_name, role))

ArchiveActivate ==
    /\ steps < MaxSteps
    /\ \E node_name \in TargetNames \cap DOMAIN nodes :
        Record([NoOp EXCEPT !.op = "activate_node", !.node = node_name],
               archive_activate_node(nodes, node_name))

NextArchive == ArchiveTick \/ ArchiveSetRole \/ ArchiveActivate \/ Reset

SpecArchive == Init /\ [][NextArchive]_vars

\* Every operation of both variants on one topology: the canonical tick and
\* the archive tick, the lifecycle operations, clear_fault and reset.
NextBoth == Tick \/ ArchiveTick \/ SetRole \/ Activate \/ ClearFault \/ Reset

SpecBoth == Init /\ [][NextBoth]_vars

----------------------------------------------------------------------------
(* The lifecycle operations called with any name, present or not *)

\* A name that init_nodes does not create.
MissingName == "tinyMod_E"

CallNames == TargetNames \cup {MissingName}

\* n = nodes[node_name] raises KeyError before anything is written.
KeyError(op) == Record([op EXCEPT !.err = "KeyError"], nodes)

CallSetRole ==
    /\ steps < MaxSteps
    /\ \E node_name \in CallNames, role \in Range(ROLES) :
        LET op == [NoOp EXCEPT !.op = "set_role", !.node = node_name, !.role = role]
        IN  IF node_name \in DOMAIN nodes
            THEN Record(op, set_role(nodes, node_name, role))
            ELSE KeyError(op)

CallActivate ==
    /\ steps < MaxSteps
    /\ \E node_name \in CallNames :
        LET op == [NoOp EXCEPT !.op = "activate_node", !.node = node_name]
        IN  IF node_name \in DOMAIN nodes
            THEN Record(op, activate_node(nodes, node_name))
            ELSE KeyError(op)

CallClearFault ==
    /\ steps < MaxSteps
    /\ \E node_name \in CallNames :
        LET op == [NoOp EXCEPT !.op = "clear_fault", !.node = node_name]
        IN  IF node_name \in DOMAIN nodes
            THEN Record(op, clear_fault(nodes, node_name))
            ELSE KeyError(op)

NextCall == Tick \/ CallSetRole \/ CallActivate \/ CallClearFault \/ Reset

SpecCall == Init /\ [][NextCall]_vars

----------------------------------------------------------------------------
(* tick_sim on small topologies, as src/tests/test_sim.py builds them *)

\* Names the small topologies are built from, one of every kind.
TestNames == {"tinyCore", "tinyHub", "tinyMod_A", "tinySwitch"}

\* activity_level arguments tried on the small topologies (at most three
\* eligible nodes): negative, zero, in range, and above the eligible count.
TickLevels == {-1, 0, 1, 2, 999}

\* {name: Node(name, kind, bus_activity=...)} for the names in S, as
\* test_tick_sim_resets_bus_activity_before_setting_new_activity builds it.
test_nodes(S, activity) ==
    [n \in S |-> [Node(n, init_nodes[n].kind) EXCEPT !.bus_activity = activity[n]]]

TickAny == TickWith(TickLevels)

InitTick ==
    /\ \E S \in (SUBSET TestNames) \ {{}} :
        \E activity \in [S -> BOOLEAN] :
            /\ nodes = test_nodes(S, activity)
            /\ pre = test_nodes(S, activity)
    /\ edges = <<>>
    /\ last = NoOp
    /\ steps = 0

NextTick == TickAny

SpecTick == InitTick /\ [][NextTick]_vars

----------------------------------------------------------------------------
(* Nodes built one by one in any state, as src/tests build them, under the *)
(* lifecycle operations                                                    *)

UnitNames == {"tinyMod_A", "tinyCore"}

Kinds == {"tinyCore", "tinyMod", "tinyHub", "tinySwitch"}

\* role= arguments: unassigned, a role of ROLES, a role outside ROLES.
UnitRoles == {"UNASSIGNED", "DC motor", "ARBITRATOR"}

\* fault_code= arguments.
UnitCodes == {"", "E01_WATCHDOG"}

\* Node(name, kind, role=, state=, fault_code=)
unit_node(name, role, state, fault_code) ==
    [Node(name, init_nodes[name].kind) EXCEPT !.role = role, !.state = state,
                                              !.fault_code = fault_code]

\* nodes[name] = Node(name, kind): a node built from its two required
\* arguments joins the topology.
Construct ==
    /\ steps < MaxSteps
    /\ \E name \in UnitNames \ DOMAIN nodes, kind \in Kinds :
        Record([NoOp EXCEPT !.op = "Node", !.node = name],
               (name :> Node(name, kind)) @@ nodes)

InitUnit ==
    /\ \E S \in (SUBSET UnitNames) \ {{}} :
        \E role \in [S -> UnitRoles], state \in [S -> Range(STATES)],
           code \in [S -> UnitCodes] :
            /\ nodes = [n \in S |-> unit_node(n, role[n], state[n], code[n])]
            /\ pre = [n \in S |-> unit_node(n, role[n], state[n], code[n])]
    /\ edges = <<>>
    /\ last = NoOp
    /\ steps = 0

NextUnit == Construct \/ SetRole \/ Activate \/ ClearFault

SpecUnit == InitUnit /\ [][NextUnit]_vars

----------------------------------------------------------------------------
(* src/ui/app_streamlit.py: one script run per user event.  Streamlit runs *)
(* the script from the top on every event; a button is true in the run its *)
(* click caused, and a selectbox the user did not touch in this run shows  *)
(* options[index].                                                         *)

\* The insertion order of the dict init_nodes returns, which nodes.values()
\* follows.
NodeOrder ==
    <<"tinyCore", "tinyMod_UI", "tinyMod_A", "tinyMod_B", "tinyMod_C", "tinyMod_D",
      "tinyHub", "tinySwitch">>

\* mods = [n for n in st.session_state.nodes.values() if n.kind == "tinyMod"]
ui_mods(nds) ==
    LET IsMod(n) == n \in DOMAIN nds /\ nds[n].kind = "tinyMod"
    IN  SelectSeq(NodeOrder, IsMod)

\* index=ROLES.index(n.role) if n.role in ROLES else 0 (zero-based)
role_index(role) ==
    IF role \in Range(ROLES)
    THEN (CHOOSE i \in DOMAIN ROLES : ROLES[i] = role) - 1
    ELSE 0

\* st.selectbox("Role", ROLES, index=...): the role the user picked in this
\* run, or else the option at index.
selectbox(role, picked) ==
    IF picked # "" THEN picked ELSE ROLES[role_index(role) + 1]

\* The Clear button offered for every module.
clear_offered_always(nds, n) == TRUE

\* if n.state == "FAULT": the Clear button is part of the page.
clear_offered(nds, n) == nds[n].state = "FAULT"

\* A user event: the widget that caused the run, its node and its value.
NoEvent == [kind |-> "none", node |-> "", role |-> ""]

\* One call of a lifecycle function made by a script run: the node before
\* the call, and whether the user's event asked for it.
Call(fn, nds, n, role, user) ==
    [fn |-> fn, node |-> n, role |-> role, before |-> nds[n], user |-> user]

\* The body of `for n in mods`: selector, Activate button, Clear button.
ui_row(run, n, ev) ==
    LET mine     == ev.node = n
        new_role == selectbox(run.nds[n].role,
                              IF mine /\ ev.kind = "select" THEN ev.role ELSE "")
        r1 == IF new_role # run.nds[n].role
              THEN [nds   |-> set_role(run.nds, n, new_role),
                    calls |-> Append(run.calls,
                                     Call("set_role", run.nds, n, new_role,
                                          mine /\ ev.kind = "select"))]
              ELSE run
        r2 == IF mine /\ ev.kind = "activate"
              THEN [nds   |-> activate_node(r1.nds, n),
                    calls |-> Append(r1.calls, Call("activate_node", r1.nds, n, "", TRUE))]
              ELSE r1
    IN  IF clear_offered(r2.nds, n) /\ mine /\ ev.kind = "clear"
        THEN [nds   |-> clear_fault(r2.nds, n),
              calls |-> Append(r2.calls, Call("clear_fault", r2.nds, n, "", TRUE))]
        ELSE r2

RECURSIVE ui_rows(_, _, _)
ui_rows(run, order, ev) ==
    IF order = <<>>
    THEN run
    ELSE ui_rows(ui_row(run, Head(order), ev), Tail(order), ev)

\* The whole script: the Tick and Reset buttons, then the rows of the
\* modules.  The result is the topology and the lifecycle calls made.
script_run(nds, ev, sampled, fire, victim, code) ==
    LET top == IF ev.kind = "tick" THEN tick_sim(nds, sampled, fire, victim, code)
               ELSE IF ev.kind = "reset" THEN init_nodes
               ELSE nds
    IN  ui_rows([nds |-> top, calls |-> <<>>], ui_mods(top), ev)

\* Values of the "Bus activity" slider (1..6) tried.
UILevels == {6}

\* Results of random.sample tried by the tick of a script run: the samples
\* that leave out one of these nodes.  The activity pattern does not enter
\* the rows of the modules; every sample is tried on the small topologies
\* above.
UILeftOut == {"tinyCore", "tinyMod_A"}

ui_samples(nds, k) == {S \in samples(nds, k) : UILeftOut \ S # {}}

\* The record of a script run: the event and the calls it made.
RunOp(op, ev, run) ==
    [op EXCEPT !.op = "script_run", !.node = ev.node, !.role = ev.role]
        @@ [event |-> ev.kind, calls |-> run.calls]

\* A run with no lifecycle event: the first page load, or a change of the
\* VIEW radio or of the slider.
UIRerun ==
    /\ steps < MaxRuns
    /\ LET run == script_run(nodes, NoEvent, {}, FALSE, "", "")
       IN  Record(RunOp(NoOp, NoEvent, run), run.nds)

UITick ==
    /\ steps < MaxRuns
    /\ \E activity \in UILevels :
        LET k  == sample_size(nodes, activity)
            ev == [NoEvent EXCEPT !.kind = "tick"]
            op == [NoOp EXCEPT !.level = activity, !.k = k]
        IN  \E sampled \in ui_samples(nodes, k), fire \in BOOLEAN :
                IF ~fire
                THEN LET run == script_run(nodes, ev, sampled, FALSE, "", "")
                     IN  Record(RunOp([op EXCEPT !.sampled = sampled], ev, run), run.nds)
                ELSE \E victim \in victims(nodes), code \in FaultCodes :
                        LET run == script_run(nodes, ev, sampled, TRUE, victim, code)
                        IN  Record(RunOp([op EXCEPT !.sampled = sampled, !.fire = TRUE,
                                                    !.victim = victim, !.code = code],
                                         ev, run),
                                   run.nds)

UIReset ==
    /\ steps < MaxRuns
    /\ LET ev  == [NoEvent EXCEPT !.kind = "reset"]
           run == script_run(nodes, ev, {}, FALSE, "", "")
       IN  Record(RunOp(NoOp, ev, run), run.nds)

\* The user picks another role than the one the selector shows.
UISelect ==
    /\ steps < MaxRuns
    /\ \E n \in Range(ui_mods(nodes)) :
        \E role \in Range(ROLES) \ {selectbox(nodes[n].role, "")} :
            LET ev  == [kind |-> "select", node |-> n, role |-> role]
                run == script_run(nodes, ev, {}, FALSE, "", "")
            IN  Record(RunOp(NoOp, ev, run), run.nds)

UIActivate ==
    /\ steps < MaxRuns
    /\ \E n \in Range(ui_mods(nodes)) :
        LET ev  == [kind |-> "activate", node |-> n, role |-> ""]
            run == script_run(nodes, ev, {}, FALSE, "", "")
        IN  Record(RunOp(NoOp, ev, run), run.nds)

\* The user can click Clear only where the page of the previous run has it.
UIClear ==
    /\ steps < MaxRuns
    /\ \E n \in Range(ui_mods(nodes)) :
        /\ clear_offered(nodes, n)
        /\ LET ev  == [kind |-> "clear", node |-> n, role |-> ""]
               run == script_run(nodes, ev, {}, FALSE, "", "")
           IN  Record(RunOp(NoOp, ev, run), run.nds)

NextUI == UIRerun \/ UITick \/ UIReset \/ UISelect \/ UIActivate \/ UIClear

SpecUI == Init /\ [][NextUI]_vars

----------------------------------------------------------------------------
(* Auxiliary definitions of the properties *)

Faulted(nds) == {n \in DOMAIN nds : nds[n].state = "FAULT"}

BusActive(nds) == {n \in DOMAIN nds : nds[n].bus_activity}

\* The last operation was op, applied to a node of the topology.
Did(op) == last.op = op /\ last.node \in DOMAIN pre

----------------------------------------------------------------------------
(* Properties *)

UserOps == {"set_role", "activate_node", "clear_fault"}

\* C1: in every state reachable from the default topology, every node has a
\* non-empty fault_code if and only if its state is FAULT.
C1_FaultCodeIffFault ==
    \A n \in DOMAIN nodes : (nodes[n].fault_code # "") <=> (nodes[n].state = "FAULT")

\* C2 as stated: a node that is in FAULT before a user operation (set_role,
\* activate_node, clear_fault) and not after it was the target of clear_fault.
C2_OnlyClearFaultLeavesFault ==
    \A n \in DOMAIN nodes :
        (/\ last.op \in UserOps
         /\ pre[n].state = "FAULT"
         /\ nodes[n].state # "FAULT")
        => (last.op = "clear_fault" /\ last.node = n)

\* C2 amended: a node that is in FAULT before a user operation and not after
\* it was the target of clear_fault, or of set_role with the role UNASSIGNED.
C2_LeavesFaultByClearOrUnassign ==
    \A n \in DOMAIN nodes :
        (/\ last.op \in UserOps
         /\ pre[n].state = "FAULT"
         /\ nodes[n].state # "FAULT")
        => (/\ last.node = n
            /\ \/ last.op = "clear_fault"
               \/ last.op = "set_role" /\ last.role = "UNASSIGNED")

C2_Witness ==
    /\ Did("set_role")
    /\ last.role = "UNASSIGNED"
    /\ pre[last.node].state = "FAULT"
    /\ nodes[last.node].state # "FAULT"

\* C3: after tick_sim(nodes, L) on a topology with at least one eligible node,
\* the number of bus-active nodes is max(1, min(count(eligible), L)) and every
\* bus-active node is of an eligible kind.
C3_ActivityCount ==
    (last.op = "tick_sim" /\ eligible(pre) # {})
    => /\ Cardinality(BusActive(nodes)) =
              Max(1, Min(Cardinality(eligible(pre)), last.level))
       /\ \A n \in BusActive(nodes) : nodes[n].kind \in EligibleKinds

C3_Witness ==
    /\ last.op = "tick_sim"
    /\ last.level <= 0
    /\ Cardinality(eligible(pre)) = 3
    /\ "tinySwitch" \in BusActive(pre)
    /\ Cardinality(BusActive(nodes)) = 1

\* C4: after tick_sim a node is bus-active only if it was sampled in this
\* call; a node that was bus-active before and is not sampled is inactive.
C4_ActivityReset ==
    last.op = "tick_sim"
    => \A n \in DOMAIN nodes : nodes[n].bus_activity <=> (n \in last.sampled)

C4_Witness ==
    /\ last.op = "tick_sim"
    /\ \E n \in DOMAIN nodes :
        /\ pre[n].bus_activity
        /\ n \in eligible(pre)
        /\ n \notin last.sampled
        /\ ~nodes[n].bus_activity

\* C5: set_role(n, "UNASSIGNED") leaves n.role = UNASSIGNED and
\* n.state = UNASSIGNED, whatever the prior state and role.
C5_UnassignForcesUnassigned ==
    (Did("set_role") /\ last.role = "UNASSIGNED")
    => /\ nodes[last.node].role = "UNASSIGNED"
       /\ nodes[last.node].state = "UNASSIGNED"

C5_Witness ==
    /\ Did("set_role")
    /\ last.role = "UNASSIGNED"
    /\ pre[last.node].state = "FAULT"
    /\ pre[last.node].role # "UNASSIGNED"
    /\ nodes[last.node].state = "UNASSIGNED"

\* C6: set_role(n, R) with R # UNASSIGNED sets n.role = R, moves the state to
\* CONFIGURED when it was UNASSIGNED and leaves every other state unchanged.
C6_AssignRole ==
    (Did("set_role") /\ last.role # "UNASSIGNED")
    => /\ nodes[last.node].role = last.role
       /\ nodes[last.node].state =
              IF pre[last.node].state = "UNASSIGNED"
              THEN "CONFIGURED"
              ELSE pre[last.node].state

C6_Witness ==
    /\ Did("set_role")
    /\ last.role # "UNASSIGNED"
    /\ pre[last.node].state = "FAULT"
    /\ nodes[last.node].state = "FAULT"
    /\ nodes[last.node].role # pre[last.node].role

\* C7: activate_node(n) sets n.state = ACTIVE when n.state # FAULT and
\* n.role # UNASSIGNED before the call, and changes nothing otherwise.
C7_Activate ==
    Did("activate_node")
    => IF pre[last.node].state # "FAULT" /\ pre[last.node].role # "UNASSIGNED"
       THEN nodes[last.node].state = "ACTIVE"
       ELSE nodes = pre

C7_Witness ==
    /\ Did("activate_node")
    /\ pre[last.node].role = "UNASSIGNED"
    /\ pre[last.node].state # "FAULT"
    /\ nodes[last.node].state = pre[last.node].state

\* C8: clear_fault(n) on a node in FAULT empties fault_code and sets the state
\* to CONFIGURED when the role is assigned and to UNASSIGNED when it is not.
C8_ClearFault ==
    (Did("clear_fault") /\ pre[last.node].state = "FAULT")
    => /\ nodes[last.node].fault_code = ""
       /\ nodes[last.node].state =
              IF pre[last.node].role # "UNASSIGNED" THEN "CONFIGURED" ELSE "UNASSIGNED"
       /\ nodes[last.node].state \notin {"ACTIVE", "FAULT"}

C8_Witness ==
    /\ Did("clear_fault")
    /\ pre[last.node].state = "FAULT"
    /\ pre[last.node].role = "UNASSIGNED"
    /\ nodes[last.node].state = "UNASSIGNED"
    /\ nodes[last.node].fault_code = ""

\* C9: clear_fault(n) on a node that is not in FAULT changes no field of n,
\* also when its fault_code is non-empty.
C9_ClearFaultNoOp ==
    (Did("clear_fault") /\ pre[last.node].state # "FAULT")
    => nodes[last.node] = pre[last.node]

C9_Witness ==
    /\ Did("clear_fault")
    /\ pre[last.node].state # "FAULT"
    /\ pre[last.node].fault_code # ""
    /\ nodes[last.node].fault_code = pre[last.node].fault_code

\* C10: when the fault branch of tick_sim fires, the one victim is a tinyMod,
\* its state becomes FAULT and its fault_code one of the three codes; no other
\* node's state or fault_code changes, so the FAULT count rises by at most one.
C10_FaultInjection ==
    (last.op = "tick_sim" /\ last.fire /\ last.err = "")
    => /\ last.victim \in DOMAIN nodes
       /\ nodes[last.victim].kind = "tinyMod"
       /\ nodes[last.victim].state = "FAULT"
       /\ nodes[last.victim].fault_code \in FaultCodes
       /\ \A n \in DOMAIN nodes \ {last.victim} :
            /\ nodes[n].state = pre[n].state
            /\ nodes[n].fault_code = pre[n].fault_code
       /\ Cardinality(Faulted(nodes)) <= Cardinality(Faulted(pre)) + 1

C10_Witness ==
    /\ last.op = "tick_sim"
    /\ last.fire
    /\ Cardinality(Faulted(pre)) = 1
    /\ Cardinality(Faulted(nodes)) = 2

InitialRoles == {init_nodes[n].role : n \in DOMAIN init_nodes}

\* C11 as stated: in every state reachable from the default topology every
\* node's role is a member of ROLES.
C11_RoleInROLES ==
    \A n \in DOMAIN nodes : nodes[n].role \in Range(ROLES)

\* C11 amended: every node's role is a member of ROLES or is the role that
\* init_nodes gives that node.
C11_RoleInROLESOrInitial ==
    \A n \in DOMAIN nodes :
        nodes[n].role \in Range(ROLES) \cup {init_nodes[n].role}

C11_Witness ==
    /\ Did("set_role")
    /\ nodes[last.node].role \in Range(ROLES)
    /\ pre[last.node].role \notin Range(ROLES)
    /\ \E n \in DOMAIN nodes : nodes[n].role \notin Range(ROLES)

\* C12: in every state reachable by the operations of both variants (the
\* canonical tick and the archive tick with auto-recovery), every node's state
\* is one of UNASSIGNED, CONFIGURED, ACTIVE, FAULT.
C12_StateInSTATES ==
    \A n \in DOMAIN nodes : nodes[n].state \in Range(STATES)

C12_Witness ==
    /\ last.op = "tick_sim"
    /\ last.recover
    /\ {nodes[n].state : n \in DOMAIN nodes} = {"UNASSIGNED", "CONFIGURED", "ACTIVE"}
    /\ Faulted(pre) # {}

DefaultNames ==
    {"tinyCore", "tinyMod_UI", "tinyMod_A", "tinyMod_B", "tinyMod_C", "tinyMod_D",
     "tinyHub", "tinySwitch"}

\* C13: in every reachable state the node set is the 8 default names, the edge
\* list is the 8 default edges, every edge joins existing nodes, and the
\* node_id values are pairwise distinct and positive.
C13_Structure ==
    /\ DOMAIN nodes = DefaultNames
    /\ Cardinality(DOMAIN nodes) = 8
    /\ edges = init_edges
    /\ Len(edges) = 8
    /\ \A i \in DOMAIN edges : edges[i][1] \in DOMAIN nodes /\ edges[i][2] \in DOMAIN nodes
    /\ \A n \in DOMAIN nodes : nodes[n].node_id > 0
    /\ \A n, m \in DOMAIN nodes : n # m => nodes[n].node_id # nodes[m].node_id

C13_Witness ==
    /\ steps = MaxSteps
    /\ last.op = "reset"
    /\ pre # init_nodes
    /\ DOMAIN nodes = DefaultNames
    /\ Len(edges) = 8

\* C14: reset after any sequence of operations yields the initial default
\* topology field by field, with the 8 default edges.
C14_ResetRoundTrip ==
    last.op = "reset" => (nodes = init_nodes /\ edges = init_edges)

C14_Witness ==
    /\ last.op = "reset"
    /\ \E n \in DOMAIN pre :
        /\ pre[n].role # init_nodes[n].role
        /\ pre[n].state = "FAULT"
        /\ pre[n].bus_activity
    /\ nodes = init_nodes

\* C15: tick_sim, activate_node, and set_role with a role other than
\* UNASSIGNED never change the state of a node that is in FAULT.
C15_FaultLatched ==
    (\/ last.op \in {"tick_sim", "activate_node"}
     \/ last.op = "set_role" /\ last.role # "UNASSIGNED")
    => \A n \in DOMAIN nodes : pre[n].state = "FAULT" => nodes[n].state = "FAULT"

C15_Witness ==
    /\ Did("activate_node")
    /\ pre[last.node].state = "FAULT"
    /\ pre[last.node].role # "UNASSIGNED"
    /\ nodes[last.node].state = "FAULT"

\* C16: in the archive tick, when the recovery branch fires every node in
\* FAULT (the victim of the same tick included) becomes ACTIVE with an empty
\* fault_code, whatever its role; when it does not fire no node leaves FAULT.
C16_ArchiveRecovery ==
    (last.op = "tick_sim" /\ last.err = "")
    => IF last.recover
       THEN \A n \in DOMAIN nodes :
                (pre[n].state = "FAULT" \/ (last.fire /\ n = last.victim))
                => (nodes[n].state = "ACTIVE" /\ nodes[n].fault_code = "")
       ELSE \A n \in DOMAIN nodes : pre[n].state = "FAULT" => nodes[n].state = "FAULT"

C16_Witness ==
    /\ last.op = "tick_sim"
    /\ last.recover
    /\ \E n \in DOMAIN nodes :
        /\ pre[n].state = "FAULT"
        /\ pre[n].role = "UNASSIGNED"
        /\ nodes[n].state = "ACTIVE"
        /\ nodes[n].role = "UNASSIGNED"

\* C17: heartbeat is true for every node in every state reachable from the
\* default topology.
C17_HeartbeatTrue ==
    \A n \in DOMAIN nodes : nodes[n].heartbeat = TRUE

C17_Witness ==
    /\ last.op = "tick_sim"
    /\ last.fire
    /\ nodes[last.victim].state = "FAULT"
    /\ nodes[last.victim].heartbeat

\* The fields of a node that the core never writes.
Static(n) ==
    <<n.x, n.y, n.name, n.kind, n.bus, n.node_id, n.notes>>

CoreOps == {"tick_sim", "set_role", "activate_node", "clear_fault"}

\* C18: no core operation changes any node's x, y, name, kind, bus, node_id or
\* notes, nor the edge list; these fields keep the values init_nodes gave them.
C18_StaticFields ==
    /\ last.op \in CoreOps
       => /\ DOMAIN nodes = DOMAIN pre
          /\ \A n \in DOMAIN nodes : Static(nodes[n]) = Static(pre[n])
    /\ \A n \in DOMAIN nodes : Static(nodes[n]) = Static(init_nodes[n])
    /\ edges = init_edges

C18_Witness ==
    /\ Did("set_role")
    /\ nodes[last.node].role # pre[last.node].role
    /\ nodes[last.node].state # pre[last.node].state
    /\ Static(nodes[last.node]) = Static(pre[last.node])

\* C19: tick_sim changes no field but bus_activity, state and fault_code (so
\* never a role), and a canonical tick whose fault branch does not fire leaves
\* every node's state and fault_code unchanged.
C19_TickFrame ==
    last.op = "tick_sim"
    => /\ DOMAIN nodes = DOMAIN pre
       /\ \A n \in DOMAIN nodes :
            /\ [nodes[n] EXCEPT !.bus_activity = pre[n].bus_activity,
                                !.state = pre[n].state,
                                !.fault_code = pre[n].fault_code] = pre[n]
            /\ ~last.fire => /\ nodes[n].state = pre[n].state
                             /\ nodes[n].fault_code = pre[n].fault_code

C19_Witness ==
    /\ last.op = "tick_sim"
    /\ ~last.fire
    /\ Faulted(pre) # {}
    /\ Faulted(nodes) = Faulted(pre)
    /\ \E n \in DOMAIN nodes : nodes[n].role # init_nodes[n].role

\* activity_level values tried against every reachable topology.
ProbeLevels == (-2 .. 9) \cup {999}

\* C20: from the default topology the only failure of an operation is the
\* lookup of a name that is not in the topology: tick_sim completes for every
\* activity_level (the eligible list holds at least k nodes and the victim
\* list is never empty), and set_role, activate_node and clear_fault complete
\* on every existing name.
C20_OnlyLookupFails ==
    /\ last.err # ""
       => /\ last.op \in UserOps
          /\ last.node \notin DOMAIN pre
          /\ last.err = "KeyError"
    /\ (last.op \in UserOps /\ last.node \in DOMAIN pre) => last.err = ""
    /\ last.op = "tick_sim" => last.err = ""
    /\ \A L \in ProbeLevels :
          sample_size(nodes, L) \in 1 .. Cardinality(eligible(nodes))
    /\ victims(nodes) # {}

C20_Witness ==
    /\ last.op = "clear_fault"
    /\ last.node \notin DOMAIN pre
    /\ last.err = "KeyError"
    /\ Faulted(pre) # {}
    /\ nodes = pre

\* The calls of the named lifecycle function made by the last script run.
CallsOf(fn) ==
    {last.calls[i] : i \in {j \in DOMAIN last.calls : last.calls[j].fn = fn}}

\* C21: in the UI loop the Clear control of a node is offered only while the
\* node is in FAULT, and no script run calls clear_fault on a node that is
\* not in FAULT at the call.
C21_ClearOnlyInFault ==
    /\ \A n \in Range(ui_mods(nodes)) :
          clear_offered(nodes, n) => nodes[n].state = "FAULT"
    /\ last.op = "script_run"
       => /\ \A c \in CallsOf("clear_fault") : c.before.state = "FAULT"
          /\ last.event = "clear" => pre[last.node].state = "FAULT"

C21_Witness ==
    /\ last.op = "script_run"
    /\ last.event = "clear"
    /\ \E c \in CallsOf("clear_fault") :
          /\ c.node = last.node
          /\ c.before.state = "FAULT"
          /\ c.before.fault_code \in FaultCodes
    /\ nodes[last.node].state = "CONFIGURED"
    /\ nodes[last.node].fault_code = ""

\* C22: a Node constructed with only name and kind has role = UNASSIGNED,
\* state = UNASSIGNED, bus = CAN, node_id = 0, heartbeat true, bus_activity
\* false, empty fault_code and notes, and x = y = 0.
C22_NodeDefaults ==
    last.op = "Node"
    => LET n == nodes[last.node]
       IN  /\ n.name = last.node
           /\ n.kind \in Kinds
           /\ n.role = "UNASSIGNED"
           /\ n.state = "UNASSIGNED"
           /\ n.bus = "CAN"
           /\ n.node_id = 0
           /\ n.heartbeat = TRUE
           /\ n.bus_activity = FALSE
           /\ n.fault_code = ""
           /\ n.notes = ""
           /\ n.x = 0
           /\ n.y = 0

C22_Witness ==
    /\ last.op = "Node"
    /\ last.node \notin DOMAIN pre
    /\ nodes[last.node].kind = "tinySwitch"
    /\ nodes[last.node].role = "UNASSIGNED"
    /\ nodes[last.node].node_id = 0
    /\ \E m \in DOMAIN pre : pre[m].state = "FAULT" /\ nodes[m] = pre[m]

\* C23: in the UI loop set_role is called on a tinyMod node only because the
\* user changed that node's selector, and only with a role from ROLES; a
\* script run in which the user changes no selector calls no set_role and
\* changes no role, and a run with no event at all changes no state.
C23_SetRoleOnlyOnUserChange ==
    last.op = "script_run"
    => /\ \A c \in CallsOf("set_role") :
            /\ c.user
            /\ c.role \in Range(ROLES)
            /\ c.before.kind = "tinyMod"
       /\ last.event # "select"
          => /\ CallsOf("set_role") = {}
             /\ \A n \in DOMAIN nodes : nodes[n].role = pre[n].role
       /\ last.event = "none"
          => \A n \in DOMAIN nodes : nodes[n].state = pre[n].state

\* C24: fault injection does not depend on the victim's prior state: every
\* tinyMod node, whatever its state, is among the victims the tick can choose,
\* and the chosen victim ends in FAULT with the code drawn in this tick; a
\* victim already in FAULT stays in FAULT and takes the newly drawn code.
C24_InjectionAnyState ==
    /\ (last.op = "tick_sim" /\ last.fire /\ last.err = "")
       => /\ last.victim \in victims(pre)
          /\ last.code \in FaultCodes
          /\ nodes[last.victim].state = "FAULT"
          /\ nodes[last.victim].fault_code = last.code
    /\ \A n \in DOMAIN nodes :
          nodes[n].kind = "tinyMod"
          => /\ n \in victims(nodes)
             /\ \A code \in FaultCodes :
                  LET after == inject_fault(nodes, n, code)
                  IN  /\ after[n].state = "FAULT"
                      /\ after[n].fault_code = code

C24_Witness ==
    /\ last.op = "tick_sim"
    /\ last.fire
    /\ pre[last.victim].state = "FAULT"
    /\ pre[last.victim].fault_code \in FaultCodes \ {last.code}
    /\ nodes[last.victim].state = "FAULT"
    /\ nodes[last.victim].fault_code = last.code
    /\ {pre[n].state : n \in victims(pre)} = Range(STATES)

\* C25: in the archive tick injection comes before recovery and the two
\* trials are independent: for each of the four fire/recover outcomes the
\* tick completes; whenever recovery fired no node is in FAULT afterwards,
\* the victim of the same tick included; when only injection fired the victim
\* is in FAULT, and without recovery no node leaves FAULT.
C25_InjectThenRecover ==
    /\ (last.op = "tick_sim" /\ last.err = "" /\ last.recover)
       => Faulted(nodes) = {}
    /\ (last.op = "tick_sim" /\ last.err = "" /\ last.fire /\ ~last.recover)
       => last.victim \in Faulted(nodes)
    /\ \A fire \in BOOLEAN, recover \in BOOLEAN, victim \in victims(nodes) :
          LET after == archive_tick_sim(nodes, eligible(nodes), fire, victim,
                                        "E12_BUS_TIMEOUT", recover)
          IN  /\ DOMAIN after = DOMAIN nodes
              /\ recover => Faulted(after) = {}
              /\ (fire /\ ~recover) => victim \in Faulted(after)
              /\ ~recover => Faulted(nodes) \subseteq Faulted(after)

C25_Witness ==
    /\ last.op = "tick_sim"
    /\ last.fire
    /\ last.recover
    /\ pre[last.victim].state = "CONFIGURED"
    /\ nodes[last.victim].state = "ACTIVE"
    /\ Faulted(pre) # {}
    /\ Faulted(nodes) = {}

\* C26: in every state reachable from the default topology by tick_sim,
\* set_role with roles from ROLES, activate_node, clear_fault and reset, a
\* node in state UNASSIGNED has the role UNASSIGNED and a node with the role
\* UNASSIGNED is in state UNASSIGNED or FAULT: no node is ACTIVE or
\* CONFIGURED without an assigned role.
C26_RoleStateConsistent ==
    \A n \in DOMAIN nodes :
        /\ nodes[n].state = "UNASSIGNED" => nodes[n].role = "UNASSIGNED"
        /\ nodes[n].role = "UNASSIGNED" => nodes[n].state \in {"UNASSIGNED", "FAULT"}
        /\ nodes[n].state \in {"ACTIVE", "CONFIGURED"} => nodes[n].role # "UNASSIGNED"

C26_Witness ==
    /\ last.op = "tick_sim"
    /\ last.fire
    /\ pre[last.victim].role = "UNASSIGNED"
    /\ pre[last.victim].state = "UNASSIGNED"
    /\ nodes[last.victim].role = "UNASSIGNED"
    /\ nodes[last.victim].state = "FAULT"
    /\ \E n \in DOMAIN nodes : nodes[n].role = "UNASSIGNED" /\ nodes[n].state = "UNASSIGNED"

\* C27: in every state reachable from the default topology by the operations
\* of either variant, the nodes of kind tinyCore, tinyHub and tinySwitch are
\* never in FAULT and always have an empty fault_code.
C27_OnlyModulesFault ==
    \A n \in DOMAIN nodes :
        nodes[n].kind \in {"tinyCore", "tinyHub", "tinySwitch"}
        => (nodes[n].state # "FAULT" /\ nodes[n].fault_code = "")

C27_Witness ==
    /\ last.op = "tick_sim"
    /\ last.fire
    /\ ~last.recover
    /\ Cardinality(Faulted(nodes)) = 2
    /\ \A n \in Faulted(nodes) : nodes[n].kind = "tinyMod"
    /\ "tinyCore" \in BusActive(nodes)
    /\ nodes["tinyCore"].role \in Range(ROLES)

\* C28: set_role(n, r), activate_node(n) and clear_fault(n) change no field of
\* a node other than n and no node's bus_activity; set_role and activate_node
\* change no fault_code, and activate_node and clear_fault change no role.
C28_LifecycleFrame ==
    (last.op \in UserOps /\ last.node \in DOMAIN pre)
    => /\ DOMAIN nodes = DOMAIN pre
       /\ \A m \in DOMAIN nodes \ {last.node} : nodes[m] = pre[m]
       /\ \A m \in DOMAIN nodes : nodes[m].bus_activity = pre[m].bus_activity
       /\ last.op \in {"set_role", "activate_node"}
          => nodes[last.node].fault_code = pre[last.node].fault_code
       /\ last.op \in {"activate_node", "clear_fault"}
          => nodes[last.node].role = pre[last.node].role

C28_Witness ==
    /\ Did("set_role")
    /\ last.role = "UNASSIGNED"
    /\ pre[last.node].bus_activity
    /\ pre[last.node].fault_code # ""
    /\ nodes[last.node].state # pre[last.node].state
    /\ nodes[last.node].fault_code = pre[last.node].fault_code
    /\ nodes[last.node].bus_activity
    /\ \E m \in Faulted(pre) \ {last.node} : nodes[m] = pre[m]

\* role arguments of set_role tried twice over.
AnyRoles == Range(ROLES) \cup UnitRoles

\* C29: each lifecycle operation is idempotent from every state: applying
\* set_role(n, r), activate_node(n) or clear_fault(n) twice in succession
\* yields the same topology as applying it once.
C29_Idempotent ==
    /\ \A n \in DOMAIN nodes :
        /\ \A r \in AnyRoles :
              set_role(set_role(nodes, n, r), n, r) = set_role(nodes, n, r)
        /\ activate_node(activate_node(nodes, n), n) = activate_node(nodes, n)
        /\ clear_fault(clear_fault(nodes, n), n) = clear_fault(nodes, n)
    /\ Did("set_role") => set_role(nodes, last.node, last.role) = nodes
    /\ Did("activate_node") => activate_node(nodes, last.node) = nodes
    /\ Did("clear_fault") => clear_fault(nodes, last.node) = nodes

C29_Witness ==
    /\ Did("set_role")
    /\ last.role = "vision"
    /\ pre[last.node].state = "UNASSIGNED"
    /\ pre[last.node].role = "ARBITRATOR"
    /\ nodes[last.node].state = "CONFIGURED"
    /\ set_role(nodes, last.node, last.role) = nodes
    /\ {nodes[n].state : n \in DOMAIN nodes} = {"CONFIGURED", "FAULT"}

\* C30: the copies agree.  On every operation applied, with the same
\* arguments and the same random draws, src/simulation.py and
\* src/simulations/simulation.py give the same eligible list, sample size,
\* victim list and resulting topology for tick_sim, set_role, activate_node
\* and clear_fault; the archive set_role and activate_node give that result
\* too, and so does the archive tick_sim when its recovery does not fire.
C30_CopiesAgree ==
    /\ last.op = "tick_sim"
       => /\ flat_mods(pre) = eligible(pre)
          /\ flat_victims(pre) = victims(pre)
          /\ flat_sample_size(pre, last.level) = sample_size(pre, last.level)
          /\ flat_sample_size(pre, last.level) = last.k
    /\ \A L \in TickLevels : flat_sample_size(nodes, L) = sample_size(nodes, L)
    /\ (last.op = "tick_sim" /\ last.err = "")
       => LET canonical == tick_sim(pre, last.sampled, last.fire, last.victim, last.code)
          IN  /\ flat_tick_sim(pre, last.sampled, last.fire, last.victim, last.code)
                    = canonical
              /\ archive_tick_sim(pre, last.sampled, last.fire, last.victim, last.code,
                                  FALSE) = canonical
              /\ ~last.recover => nodes = canonical
    /\ Did("set_role")
       => /\ set_role(pre, last.node, last.role) = nodes
          /\ flat_set_role(pre, last.node, last.role) = nodes
          /\ archive_set_role(pre, last.node, last.role) = nodes
    /\ Did("activate_node")
       => /\ activate_node(pre, last.node) = nodes
          /\ flat_activate_node(pre, last.node) = nodes
          /\ archive_activate_node(pre, last.node) = nodes
    /\ Did("clear_fault")
       => /\ clear_fault(pre, last.node) = nodes
          /\ flat_clear_fault(pre, last.node) = nodes

C30_Witness ==
    /\ last.op = "tick_sim"
    /\ last.fire
    /\ ~last.recover
    /\ Faulted(pre) # {}
    /\ BusActive(pre) # {}
    /\ nodes = flat_tick_sim(pre, last.sampled, last.fire, last.victim, last.code)
    /\ nodes # archive_tick_sim(pre, last.sampled, last.fire, last.victim, last.code,
                                TRUE)

====
